---------------------------- MODULE Spec2Model ----------------------------
(***************************************************************************)
(* Model of the generic Option[T] container of package opt (src/opt.go).   *)
(*                                                                         *)
(* A JSON text is a sequence of lexemes: each element of `data` is one     *)
(* JSON token ("[", "]", "{", "}", ",", ":", a number, a quoted string,    *)
(* the literal null) or one whitespace byte " ".  Three instantiations of  *)
(* T are modelled: string, []int and map[string]int.  The host             *)
(* encoder/decoder (encoding/json, called at opt.go:30 and opt.go:48) is   *)
(* modelled by what it does to these texts and values.                     *)
(***************************************************************************)
EXTENDS Integers, Sequences, FiniteSets, TLC

VARIABLES T, o, last, produced

vars == <<T, o, last, produced>>

(***************************************************************************)
(* Bounds of the model.                                                    *)
(***************************************************************************)
\* longest array / object (in elements) occurring in an input text
MaxLen == 2
Kinds   == {"string", "slice", "map"}
Ints    == {0, 1}
Strings == {"", "a", "b"}
Keys    == {"a", "b"}
KeyOrder == <<"", "a", "b">>

(***************************************************************************)
(* Values of T.  A slice is its nil flag, its elements and the elements    *)
(* of its backing array beyond its length (trailing zeros dropped); a map  *)
(* is its nil flag and its entries.                                        *)
(***************************************************************************)
EmptyMap == [k \in {} |-> 0]

Slice(isnil, elems, spare) == [nil |-> isnil, elems |-> elems, spare |-> spare]

Map(isnil, m) == [nil |-> isnil, m |-> m]

\* the zero value of T
Zero(t) ==
    CASE t = "string" -> ""
      [] t = "slice"  -> Slice(TRUE, <<>>, <<>>)
      [] t = "map"    -> Map(TRUE, EmptyMap)

\* equality of two values of T as a caller observes it (reflect.DeepEqual)
Same(t, a, b) ==
    CASE t = "string" -> a = b
      [] t = "slice"  -> a.nil = b.nil /\ a.elems = b.elems
      [] t = "map"    -> a.nil = b.nil /\ a.m = b.m

(***************************************************************************)
(* Lexemes.                                                                *)
(***************************************************************************)
NumLex(n) == ToString(n)

StrLex(s) == "\"" \o s \o "\""

NumLexes == {NumLex(n) : n \in Ints}

StrLexes == {StrLex(s) : s \in Strings}

IsNum(l) == l \in NumLexes

NumOf(l) == CHOOSE n \in Ints : NumLex(n) = l

IsStr(l) == l \in StrLexes

StrOf(l) == CHOOSE s \in Strings : StrLex(s) = l

ScalarLex == NumLexes \cup StrLexes \cup {"null"}

\* var nullBytes = []byte("null")
nullBytes == <<"null">>

(***************************************************************************)
(* Host encoder: json.Marshal(o.value), opt.go:30.                         *)
(***************************************************************************)
RECURSIVE Join(_)
\* the items of a sequence of texts, separated by ","
Join(items) ==
    IF items = <<>> THEN <<>>
    ELSE IF Len(items) = 1 THEN Head(items)
    ELSE Head(items) \o <<",">> \o Join(Tail(items))

ArrayText(es) == <<"[">> \o Join([i \in 1..Len(es) |-> <<es[i]>>]) \o <<"]">>

ObjectText(ps) ==
    <<"{">> \o Join([i \in 1..Len(ps) |-> <<StrLex(ps[i].key), ":", ps[i].elem>>]) \o <<"}">>

\* the entries of a map in the encoder's (sorted) key order
SortedPairs(m) ==
    LET ks == SelectSeq(KeyOrder, LAMBDA k : k \in DOMAIN m)
    IN  [i \in 1..Len(ks) |-> [key |-> ks[i], elem |-> NumLex(m[ks[i]])]]

jsonMarshal(t, v) ==
    CASE t = "string" -> [data |-> <<StrLex(v)>>, err |-> "nil"]
      [] t = "slice"  ->
            IF v.nil THEN [data |-> <<"null">>, err |-> "nil"]
            ELSE [data |-> ArrayText([i \in 1..Len(v.elems) |-> NumLex(v.elems[i])]),
                  err |-> "nil"]
      [] t = "map"    ->
            IF v.nil THEN [data |-> <<"null">>, err |-> "nil"]
            ELSE [data |-> ObjectText(SortedPairs(v.m)), err |-> "nil"]

(***************************************************************************)
(* Host decoder: json.Unmarshal(data, &o.value), opt.go:48.                *)
(***************************************************************************)
\* whitespace between lexemes is insignificant
Strip(data) == SelectSeq(data, LAMBDA l : l # " ")

IsScalarText(t) == Len(t) = 1 /\ t[1] \in ScalarLex

IsArrayText(t) ==
    /\ Len(t) >= 2
    /\ t[1] = "["
    /\ t[Len(t)] = "]"
    /\ LET n == Len(t) - 2
       IN  \/ n = 0
           \/ /\ n % 2 = 1
              /\ \A i \in 1..n :
                    IF i % 2 = 1 THEN t[i + 1] \in ScalarLex ELSE t[i + 1] = ","

IsObjectText(t) ==
    /\ Len(t) >= 2
    /\ t[1] = "{"
    /\ t[Len(t)] = "}"
    /\ LET n == Len(t) - 2
       IN  \/ n = 0
           \/ /\ n % 4 = 3
              /\ \A i \in 1..n :
                    CASE i % 4 = 1 -> IsStr(t[i + 1])
                      [] i % 4 = 2 -> t[i + 1] = ":"
                      [] i % 4 = 3 -> t[i + 1] \in ScalarLex
                      [] OTHER     -> t[i + 1] = ","

\* the syntax check json.Unmarshal runs before it writes anything
IsValueText(t) == IsScalarText(t) \/ IsArrayText(t) \/ IsObjectText(t)

checkValid(data) == IsValueText(Strip(data))

ArrayElems(t) == [j \in 1..((Len(t) - 1) \div 2) |-> t[2 * j]]

ObjectPairs(t) ==
    [j \in 1..((Len(t) - 1) \div 4) |-> [key |-> StrOf(t[4 * j - 2]), elem |-> t[4 * j]]]

\* a literal decoded into an int that holds cur: a number is stored, null
\* leaves the int alone, a string is a type error and leaves the int alone
intStore(cur, lex) ==
    IF IsNum(lex) THEN [v |-> NumOf(lex), err |-> "nil"]
    ELSE IF lex = "null" THEN [v |-> cur, err |-> "nil"]
    ELSE [v |-> cur, err |-> "UnmarshalTypeError"]

\* the first error saved while decoding the elements es
ElemsErr(es) ==
    IF \E i \in 1..Len(es) : intStore(0, es[i]).err # "nil"
    THEN "UnmarshalTypeError" ELSE "nil"

RECURSIVE TrimZeros(_)
TrimZeros(s) ==
    IF s # <<>> /\ s[Len(s)] = 0 THEN TrimZeros(SubSeq(s, 1, Len(s) - 1)) ELSE s

\* a JSON array decoded into the slice v: element i is decoded in place into
\* what the backing array holds at i (zero beyond it); the length is set to
\* the number of elements; an empty array makes a new empty slice
arrayInto(v, es) ==
    LET full  == v.elems \o v.spare
        at(i) == IF i <= Len(full) THEN full[i] ELSE 0
        n     == Len(es)
    IN  IF n = 0 THEN Slice(FALSE, <<>>, <<>>)
        ELSE Slice(FALSE,
                   [i \in 1..n |-> intStore(at(i), es[i]).v],
                   TrimZeros(SubSeq(full, n + 1, Len(full))))

Put(m, k, x) == [j \in DOMAIN m \cup {k} |-> IF j = k THEN x ELSE m[j]]

RECURSIVE objectPut(_, _)
\* each member is decoded into a zero int, which is then stored under its key
objectPut(m, ps) ==
    IF ps = <<>> THEN m
    ELSE objectPut(Put(m, Head(ps).key, intStore(0, Head(ps).elem).v), Tail(ps))

\* a JSON object decoded into the map v: a nil map is made first, the
\* entries already in the map stay
objectInto(v, ps) == Map(FALSE, objectPut(v.m, ps))

PairElems(ps) == [i \in 1..Len(ps) |-> ps[i].elem]

TypeError(v) == [value |-> v, err |-> "UnmarshalTypeError"]

Stored(v) == [value |-> v, err |-> "nil"]

\* the value x (a valid text without its whitespace) decoded into v
decodeValue(t, x, v) ==
    CASE t = "string" ->
           IF IsScalarText(x) /\ x[1] = "null" THEN Stored(v)
           ELSE IF IsScalarText(x) /\ IsStr(x[1]) THEN Stored(StrOf(x[1]))
           ELSE TypeError(v)
      [] t = "slice" ->
           IF IsScalarText(x) /\ x[1] = "null" THEN Stored(Zero(t))
           ELSE IF IsArrayText(x)
                THEN [value |-> arrayInto(v, ArrayElems(x)),
                      err |-> ElemsErr(ArrayElems(x))]
           ELSE TypeError(v)
      [] t = "map" ->
           IF IsScalarText(x) /\ x[1] = "null" THEN Stored(Zero(t))
           ELSE IF IsObjectText(x)
                THEN [value |-> objectInto(v, ObjectPairs(x)),
                      err |-> ElemsErr(PairElems(ObjectPairs(x)))]
           ELSE TypeError(v)

jsonUnmarshal(t, data, v) ==
    IF ~checkValid(data) THEN [value |-> v, err |-> "SyntaxError"]
    ELSE decodeValue(t, Strip(data), v)

(***************************************************************************)
(* type Option[T any] struct { value T; exists bool }, opt.go:17-23.       *)
(* A reference to a container is nil or points to one.                     *)
(***************************************************************************)
NilRef == [isNil |-> TRUE]

Option(value, exists) == [isNil |-> FALSE, value |-> value, exists |-> exists]

\* MarshalJSON without its test of o.exists
MarshalJSONNoTest(t, c) == jsonMarshal(t, c.value)

\* func (o Option[T]) MarshalJSON() (data []byte, err error)
MarshalJSON(t, c) ==
    IF c.exists THEN jsonMarshal(t, c.value)
    ELSE [data |-> nullBytes, err |-> "nil"]

\* func (o *Option[T]) UnmarshalJSON(data []byte) (err error)
\* setExists with exists cleared when json.Unmarshal fails
setExistsCleared(c, r) ==
    IF r.err # "nil"
    THEN [o |-> [c EXCEPT !.value = r.value, !.exists = FALSE], err |-> r.err]
    ELSE [o |-> [c EXCEPT !.value = r.value, !.exists = TRUE], err |-> "nil"]

\* r is what json.Unmarshal(data, &o.value) returned and left in o.value
setExists(c, r) ==
    IF r.err # "nil"
    THEN [o |-> [c EXCEPT !.value = r.value], err |-> r.err]
    ELSE [o |-> [c EXCEPT !.value = r.value, !.exists = TRUE], err |-> "nil"]

\* UnmarshalJSON without its test for the null literal
UnmarshalJSONNoNull(t, c, data) == setExists(c, jsonUnmarshal(t, data, c.value))

\* UnmarshalJSON without `o.exists = true`
UnmarshalJSONNoFlag(t, c, data) ==
    IF data = nullBytes THEN [o |-> c, err |-> "nil"]
    ELSE [o |-> [c EXCEPT !.value = jsonUnmarshal(t, data, c.value).value],
          err |-> jsonUnmarshal(t, data, c.value).err]

UnmarshalJSON(t, c, data) ==
    IF data = nullBytes THEN [o |-> c, err |-> "nil"]
    ELSE setExists(c, jsonUnmarshal(t, data, c.value))

\* func (o *Option[T]) Exists() (exists bool)
Exists(c) == IF c.isNil THEN FALSE ELSE c.exists

\* Get returning the stored value of a container that is not Present
GetStored(t, c) == IF c.isNil THEN Zero(t) ELSE c.value

\* func (o *Option[T]) Get() (value T)
Get(t, c) == IF c.isNil \/ ~c.exists THEN Zero(t) ELSE c.value

\* GetWithDefault returning the zero value through a nil reference
GetWithDefaultNilZero(t, c, d) ==
    IF c.isNil THEN Zero(t) ELSE IF ~c.exists THEN d ELSE c.value

\* GetWithDefault without its test of o.exists
GetWithDefaultNoTest(t, c, d) == IF c.isNil THEN d ELSE c.value

\* func (o *Option[T]) GetWithDefault(defaultValue T) (value T)
GetWithDefault(t, c, d) == IF c.isNil \/ ~c.exists THEN d ELSE c.value

(***************************************************************************)
(* The inputs of the operations.                                           *)
(***************************************************************************)
SeqsUpTo(S, n) == UNION {[1..k -> S] : k \in 0..n}

\* the literals that occur as array elements and object members
Elems == {NumLex(n) : n \in Ints} \cup {StrLex("a"), "null"}

\* the members key: literal of an object text, in key order
MemberPairs(f) ==
    LET ks == SelectSeq(KeyOrder, LAMBDA k : k \in DOMAIN f)
    IN  [i \in 1..Len(ks) |-> [key |-> ks[i], elem |-> f[ks[i]]]]

Texts ==
    {<<l>> : l \in ScalarLex}
      \cup {ArrayText(es) : es \in SeqsUpTo(Elems, MaxLen)}
      \cup {ObjectText(MemberPairs(f)) : f \in UNION {[ks -> Elems] : ks \in SUBSET Keys}}

\* every text as it is, padded with a whitespace byte, and cut short
Inputs ==
    Texts \cup {<<" ">> \o d : d \in Texts} \cup {SubSeq(d, 1, Len(d) - 1) : d \in Texts}

\* the values of T an encoder is given
Values(t) ==
    CASE t = "string" -> Strings
      [] t = "slice"  ->
            {Zero(t)} \cup {Slice(FALSE, es, <<>>) : es \in SeqsUpTo(Ints, MaxLen)}
      [] t = "map"    ->
            {Zero(t)} \cup {Map(FALSE, m) : m \in UNION {[ks -> Ints] : ks \in SUBSET Keys}}

\* every value of T with its encoding
Encodings(t) == {[data |-> jsonMarshal(t, x).data, value |-> x] : x \in Values(t)}

StringEncodings == Encodings("string")

SliceEncodings == Encodings("slice")

MapEncodings == Encodings("map")

\* the values of T whose encoding is data (at most one)
EncodedBy(t, data) ==
    LET E == CASE t = "string" -> StringEncodings
               [] t = "slice"  -> SliceEncodings
               [] t = "map"    -> MapEncodings
    IN  {p.value : p \in {q \in E : q.data = data}}

\* the fallbacks handed to GetWithDefault
Defaults(t) ==
    CASE t = "string" -> {"", "a"}
      [] t = "slice"  -> {Zero(t), Slice(FALSE, <<1>>, <<>>)}
      [] t = "map"    -> {Zero(t), Map(FALSE, [k \in {"a"} |-> 1])}

(***************************************************************************)
(* The state machine.  last is the record of the latest call: its          *)
(* operation, its inputs and what it returned.  produced is the value the  *)
(* latest Decode that reached `o.exists = true` left in the container.     *)
(***************************************************************************)
Init ==
    /\ T \in Kinds
    /\ o \in {NilRef, Option(Zero(T), FALSE)}
    /\ last = [op |-> "none"]
    /\ produced = [some |-> FALSE, value |-> Zero(T)]

\* the host decoder allocates the container a nil pointer field refers to
\* before it calls UnmarshalJSON on it
New ==
    /\ o.isNil
    /\ o' = Option(Zero(T), FALSE)
    /\ last' = [op |-> "New"]
    /\ UNCHANGED <<T, produced>>

Decode ==
    /\ ~o.isNil
    /\ \E data \in Inputs : \E r \in {UnmarshalJSON(T, o, data)} :
          /\ o' = r.o
          /\ last' = [op      |-> "Decode",
                      null    |-> (data = nullBytes),
                      encodes |-> EncodedBy(T, data),
                      zeroed  |-> (o.value = Zero(T)),
                      was     |-> o.exists,
                      err     |-> r.err]
          /\ produced' = IF r.err = "nil" /\ data # nullBytes
                         THEN [some |-> TRUE, value |-> r.o.value]
                         ELSE produced
          /\ UNCHANGED T

Encode ==
    LET r == MarshalJSON(T, o)
    IN  /\ ~o.isNil
        /\ last' = [op |-> "Encode", data |-> r.data, err |-> r.err]
        /\ UNCHANGED <<T, o, produced>>

CallExists ==
    /\ last' = [op |-> "Exists", ret |-> Exists(o)]
    /\ UNCHANGED <<T, o, produced>>

CallGet ==
    /\ last' = [op |-> "Get", ret |-> Get(T, o)]
    /\ UNCHANGED <<T, o, produced>>

CallGetWithDefault ==
    \E d \in Defaults(T) :
      /\ last' = [op |-> "GetWithDefault", dflt |-> d, ret |-> GetWithDefault(T, o, d)]
      /\ UNCHANGED <<T, o, produced>>

Next ==
    \/ New
    \/ Decode
    \/ Encode
    \/ CallExists
    \/ CallGet
    \/ CallGetWithDefault

Spec == Init /\ [][Next]_vars

(***************************************************************************)
(* The claims.                                                             *)
(***************************************************************************)
\* a container that was never decoded into
Fresh(t) == Option(Zero(t), FALSE)

\* C1: after a Decode that failed, Exists() is false, also when an earlier
\* Decode on the same instance had succeeded.
C1_FailedDecodeNotPresent ==
    (last.op = "Decode" /\ last.err # "nil") => ~Exists(o)

\* C2 as stated: a Decode of exactly the null literal returns no error and
\* leaves Exists() false and Get() the zero value, whatever the state before.
C2_NullDecodeNotPresent ==
    (last.op = "Decode" /\ last.null) =>
        (last.err = "nil" /\ ~Exists(o) /\ Same(T, Get(T, o), Zero(T)))

\* C2 as amended: a Decode of exactly the null literal returns no error and
\* leaves the container as it was; on a container that was not Present,
\* Exists() is false and Get() the zero value afterwards.
C2_NullDecodeNoChange ==
    [][(last'.op = "Decode" /\ last'.null) =>
         /\ last'.err = "nil"
         /\ o' = o
         /\ ~Exists(o) => (~Exists(o') /\ Same(T, Get(T, o'), Zero(T)))]_vars

\* C2 witness: the null literal was decoded into a container that was
\* Present, which still is.
C2_Witness ==
    last.op = "Decode" /\ last.null /\ last.was /\ Exists(o)

\* C3: in every state, Exists() implies that Get() is the value the most
\* recent successful Decode produced.
C3_PresentValueIsLastDecoded ==
    Exists(o) => (produced.some /\ Same(T, Get(T, o), produced.value))

\* C4 as stated: a Decode of a valid encoding of a value of T succeeds and
\* leaves Exists() true and Get() that value.
C4_ValidDecodePresent ==
    (last.op = "Decode" /\ last.encodes # {}) =>
        /\ last.err = "nil"
        /\ Exists(o)
        /\ \A x \in last.encodes : Same(T, Get(T, o), x)

\* C4 as amended: a Decode of a valid encoding other than the null literal,
\* into a container whose stored value is the zero value, succeeds and leaves
\* Exists() true and Get() the encoded value (an empty one included).
C4_ValidNonNullDecodePresent ==
    (last.op = "Decode" /\ last.encodes # {} /\ ~last.null /\ last.zeroed) =>
        /\ last.err = "nil"
        /\ Exists(o)
        /\ \A x \in last.encodes : Same(T, Get(T, o), x)

\* C4 witness: an empty array or object was decoded into a fresh container,
\* which is now Present with the empty value.
C4_Witness ==
    /\ T \in {"slice", "map"}
    /\ last.op = "Decode" /\ last.zeroed /\ ~last.was
    /\ last.encodes # {} /\ ~last.null
    /\ Exists(o)
    /\ o.value \in {Slice(FALSE, <<>>, <<>>), Map(FALSE, EmptyMap)}

\* the output of the latest Encode decoded into a fresh container
Decoded == UnmarshalJSON(T, Fresh(T), last.data).o

\* C5 as stated: decoding the output of Encode into a fresh container gives
\* a container in the state of the encoded one: Present with an equal value,
\* or Absent.
C5_RoundTrip ==
    (last.op = "Encode") =>
        /\ Exists(Decoded) = Exists(o)
        /\ Same(T, Get(T, Decoded), Get(T, o))

\* C5 as amended: decoding the output of Encode into a fresh container gives
\* a container with an equal Get(); it is Present exactly when the encoded one
\* was Present and its output was not the null literal.
C5_RoundTripUnlessNull ==
    (last.op = "Encode") =>
        /\ Exists(Decoded) = (Exists(o) /\ last.data # <<"null">>)
        /\ Same(T, Get(T, Decoded), Get(T, o))

\* C5 witness: a Present container with a non-zero value was encoded.
C5_Witness ==
    last.op = "Encode" /\ Exists(o) /\ o.value # Zero(T) /\ last.data # <<"null">>

NotPresent(c) == c.isNil \/ ~c.exists

\* C7: through a nil reference Exists() is false, Get() is the zero value
\* and GetWithDefault(d) is d, as for a container that is not Present.
C7_NilSafeAccessors ==
    NotPresent(o) =>
        /\ (last.op = "Exists") => (last.ret = FALSE)
        /\ (last.op = "Get") => (last.ret = Zero(T))
        /\ (last.op = "GetWithDefault") => (last.ret = last.dflt)

\* C7 witness: GetWithDefault was called through a nil reference with a
\* fallback that is not the zero value.
C7_Witness ==
    o.isNil /\ last.op = "GetWithDefault" /\ last.dflt # Zero(T)

=============================================================================
